---- MODULE Spec2Model ----
(***************************************************************************)
(* Model of replibyte's Postgres source: Postgres::stream_rows             *)
(* (src/replibyte/src/source/postgres.rs).  stream_rows spawns pg_dump,    *)
(* reads its standard output statement by statement, turns every           *)
(* INSERT INTO statement into an (original, transformed) pair of rows and  *)
(* hands the pair to the caller's callback, then waits for pg_dump.        *)
(*                                                                         *)
(* Strings are tuples of one-character strings, so that format!() is       *)
(* concatenation and parse() reads digits.  Option<T> is a tuple of length *)
(* 0 (None) or 1 (Some).                                                   *)
(***************************************************************************)
EXTENDS Integers, Sequences, FiniteSets, TLC

\* ------------------------------------------------------------------ bounds
\* statements the producer writes to its standard output
MaxStmts == 2
\* length of the transformer list handed to stream_rows
MaxTransformers == 2
\* statements the stdout pipe holds before the producer's write blocks
StdoutCap == 1
\* bytes the stderr pipe holds before the producer's write blocks
StderrCap == 1

\* ------------------------------------------------------------------ tokens
\* dump_parser::postgres::Token (the variants stream_rows and the extractors read)
Word(value, keyword) == [type |-> "Word", value |-> value, keyword |-> keyword]
KeywordWord(keyword) == Word(<<keyword>>, keyword)
Ident(value) == Word(value, "NoKeyword")
Sym(type) == [type |-> type, value |-> <<>>, keyword |-> "NoKeyword"]
Lit(type, value) == [type |-> type, value |-> value, keyword |-> "NoKeyword"]

Whitespace == Sym("Whitespace")
Period == Sym("Period")
LParen == Sym("LParen")
RParen == Sym("RParen")
Comma == Sym("Comma")
SemiColon == Sym("SemiColon")

\* tokens.get(position): Rust positions count from 0
TokenAt(tokens, position) ==
    IF position + 1 <= Len(tokens) THEN <<tokens[position + 1]>> ELSE <<>>

match_keyword_at_position(keyword, tokens, position) ==
    LET t == TokenAt(tokens, position)
    IN  /\ t # <<>>
        /\ t[1].type = "Word"
        /\ t[1].keyword = keyword

get_word_value_at_position(tokens, position) ==
    LET t == TokenAt(tokens, position)
    IN  IF t # <<>> /\ t[1].type = "Word" THEN <<t[1].value>> ELSE <<>>

\* index of the first token at or after `from` that satisfies the test,
\* Len(tokens) + 1 when there is none
RECURSIVE FirstOfType(_, _, _)
FirstOfType(tokens, type, from) ==
    IF from > Len(tokens) THEN Len(tokens) + 1
    ELSE IF tokens[from].type = type THEN from
    ELSE FirstOfType(tokens, type, from + 1)

RECURSIVE FirstKeyword(_, _, _)
FirstKeyword(tokens, keyword, from) ==
    IF from > Len(tokens) THEN Len(tokens) + 1
    ELSE IF tokens[from].type = "Word" /\ tokens[from].keyword = keyword THEN from
    ELSE FirstKeyword(tokens, keyword, from + 1)

IsWordToken(t) == t.type = "Word"
IsValueToken(t) == t.type \notin {"Comma", "Whitespace"}

RECURSIVE MapValue(_)
MapValue(tokens) ==
    IF tokens = <<>> THEN <<>> ELSE <<tokens[1].value>> \o MapValue(Tail(tokens))

\* the identifiers of the first parenthesized list of the statement
get_column_names_from_insert_into_query(tokens) ==
    LET l == FirstOfType(tokens, "LParen", 1)
        r == FirstOfType(tokens, "RParen", l + 1)
    IN  IF l > Len(tokens) THEN <<>>
        ELSE MapValue(SelectSeq(SubSeq(tokens, l + 1, r - 1), IsWordToken))

\* the tokens of the parenthesized list after VALUES, separators left out
get_column_values_from_insert_into_query(tokens) ==
    LET v == FirstKeyword(tokens, "VALUES", 1)
        l == FirstOfType(tokens, "LParen", v + 1)
        r == FirstOfType(tokens, "RParen", l + 1)
    IN  IF l > Len(tokens) THEN <<>>
        ELSE SelectSeq(SubSeq(tokens, l + 1, r - 1), IsValueToken)

\* ----------------------------------------------------------------- parsing
Digits == {"0", "1", "2", "3", "4", "5", "6", "7", "8", "9"}
DigitValue(c) ==
    CASE c = "0" -> 0 [] c = "1" -> 1 [] c = "2" -> 2 [] c = "3" -> 3
      [] c = "4" -> 4 [] c = "5" -> 5 [] c = "6" -> 6 [] c = "7" -> 7
      [] c = "8" -> 8 [] c = "9" -> 9

Contains(s, c) == \E i \in 1..Len(s) : s[i] = c
AllDigits(s) == \A i \in 1..Len(s) : s[i] \in Digits

RECURSIVE StripLeadingZeros(_)
StripLeadingZeros(s) ==
    IF Len(s) > 1 /\ s[1] = "0" THEN StripLeadingZeros(Tail(s)) ELSE s

RECURSIVE StripTrailingZeros(_)
StripTrailingZeros(s) ==
    IF s # <<>> /\ s[Len(s)] = "0"
    THEN StripTrailingZeros(SubSeq(s, 1, Len(s) - 1))
    ELSE s

\* a <= b for two digit strings of the same length
RECURSIVE DigitsLeq(_, _)
DigitsLeq(a, b) ==
    IF a = <<>> THEN TRUE
    ELSE IF DigitValue(a[1]) < DigitValue(b[1]) THEN TRUE
    ELSE IF DigitValue(a[1]) > DigitValue(b[1]) THEN FALSE
    ELSE DigitsLeq(Tail(a), Tail(b))

\* i128::MAX = 2^127 - 1 = 170141183460469231731687303715884105727
I128Max ==
    <<"1","7","0","1","4","1","1","8","3","4","6","0","4","6","9","2","3","1","7",
      "3","1","6","8","7","3","0","3","7","1","5","8","8","4","1","0","5","7","2","7">>

\* str::parse::<i128>() on an unsigned literal: the decimal value, kept as
\* its digits without leading zeros; None when it is no number or exceeds
\* i128::MAX
ParseI128(s) ==
    IF s = <<>> \/ ~AllDigits(s) THEN <<>>
    ELSE LET n == StripLeadingZeros(s)
         IN  IF \/ Len(n) < Len(I128Max)
                \/ Len(n) = Len(I128Max) /\ DigitsLeq(n, I128Max)
             THEN <<n>>
             ELSE <<>>

\* str::parse::<f64>() on digits with a decimal point: the value, kept as
\* integer part, point and fraction without the zeros that do not change
\* it ("1.50" and "01.5" both give 1.5)
ParseF64(s) ==
    LET dot == CHOOSE i \in 1..(Len(s) + 1) :
                   /\ i = Len(s) + 1 \/ s[i] = "."
                   /\ \A j \in 1..(i - 1) : s[j] # "."
        int == SubSeq(s, 1, dot - 1)
        frac == SubSeq(s, dot + 1, Len(s))
    IN  IF \/ ~AllDigits(int) \/ ~AllDigits(frac)
           \/ int = <<>> /\ frac = <<>>
        THEN <<>>
        ELSE <<StripLeadingZeros(IF int = <<>> THEN <<"0">> ELSE int)
               \o <<".">> \o StripTrailingZeros(frac)>>

\* ----------------------------------------------------------------- columns
\* crate::types::Column: a variant, the column's name and its value
Column(variant, name, value) == [variant |-> variant, name |-> name, value |-> value]

\* TypeColumn with a slip: the arm of the hex string literal is missing
TypeColumnWithoutHex(column_name, value_token) ==
    CASE value_token.type = "Number" ->
            IF Contains(value_token.value, ".")
            THEN LET f == ParseF64(value_token.value)
                 IN  IF f = <<>> THEN <<>>
                     ELSE <<Column("FloatNumberValue", column_name, f[1])>>
            ELSE LET n == ParseI128(value_token.value)
                 IN  IF n = <<>> THEN <<>>
                     ELSE <<Column("NumberValue", column_name, n[1])>>
      [] value_token.type = "Char" ->
            <<Column("CharValue", column_name, value_token.value)>>
      [] value_token.type = "SingleQuotedString" ->
            <<Column("StringValue", column_name, value_token.value)>>
      [] value_token.type = "NationalStringLiteral" ->
            <<Column("StringValue", column_name, value_token.value)>>
      [] OTHER -> <<Column("None", column_name, <<>>)>>

\* the column of one value token, None where an unwrap() of a failed
\* parse panics
TypeColumn(column_name, value_token) ==
    CASE value_token.type = "Number" ->
            IF Contains(value_token.value, ".")
            THEN LET f == ParseF64(value_token.value)
                 IN  IF f = <<>> THEN <<>>
                     ELSE <<Column("FloatNumberValue", column_name, f[1])>>
            ELSE LET n == ParseI128(value_token.value)
                 IN  IF n = <<>> THEN <<>>
                     ELSE <<Column("NumberValue", column_name, n[1])>>
      [] value_token.type = "Char" ->
            <<Column("CharValue", column_name, value_token.value)>>
      [] value_token.type = "SingleQuotedString" ->
            <<Column("StringValue", column_name, value_token.value)>>
      [] value_token.type = "NationalStringLiteral" ->
            <<Column("StringValue", column_name, value_token.value)>>
      [] value_token.type = "HexStringLiteral" ->
            <<Column("StringValue", column_name, value_token.value)>>
      [] OTHER -> <<Column("None", column_name, <<>>)>>

\* ------------------------------------------------------------ transformers
\* crate::transformer: NoTransformer and RandomTransformer
NoTransformer == [kind |-> "NoTransformer", table_name |-> <<>>, column_name |-> <<>>]
RandomTransformer(table_name, column_name) ==
    [kind |-> "RandomTransformer", table_name |-> table_name, column_name |-> column_name]

\* what the random generators can return
RandomChars == {"q", "z"}
RandomNumbers == {<<"0">>, <<"4", "2">>}
RandomFloats == {<<"0", ".", "5">>}

\* Transformer::transform: the set of columns one call can return
transform(transformer, column) ==
    IF transformer.kind = "NoTransformer" THEN {column}
    ELSE CASE column.variant = "NumberValue" ->
                 {Column("NumberValue", column.name, v) : v \in RandomNumbers}
           [] column.variant = "FloatNumberValue" ->
                 {Column("FloatNumberValue", column.name, v) : v \in RandomFloats}
           [] column.variant = "StringValue" ->
                 {Column("StringValue", column.name, v) :
                      v \in [1..Len(column.value) -> RandomChars]}
           [] column.variant = "CharValue" ->
                 {Column("CharValue", column.name, <<c>>) : c \in RandomChars}
           [] OTHER -> {column}

\* format!("{}.{}", table_name, column_name)
TableAndColumnName(table_name, column_name) == table_name \o <<".">> \o column_name

\* Transformer::table_and_column_name
table_and_column_name(transformer) ==
    TableAndColumnName(transformer.table_name, transformer.column_name)

\* HashMapInsert with a slip: an entry already there is kept
HashMapInsertIfAbsent(map, key, value) ==
    [k \in DOMAIN map \cup {key} |-> IF k \in DOMAIN map THEN map[k] ELSE value]

\* HashMap::insert: the registry maps a key to the position, in the list
\* handed to stream_rows, of the transformer it refers to
HashMapInsert(map, key, value) ==
    [k \in DOMAIN map \cup {key} |-> IF k = key THEN value ELSE map[k]]

EmptyMap == [k \in {} |-> 0]

\* ApplyRegistry with a slip: the lookup goes by the table alone
ApplyRegistryByTable(registry, transformer_list, table_name, column) ==
    LET hits == {k \in DOMAIN registry :
                     transformer_list[registry[k]].table_name = table_name}
    IN  IF hits # {}
        THEN UNION {{[column |-> c, by |-> registry[k]] :
                        c \in transform(transformer_list[registry[k]], column)} :
                    k \in hits}
        ELSE {[column |-> column, by |-> 0]}

\* the registry lookup of one column: the column that goes into the
\* transformed row and the position of the transformer applied (0: none)
ApplyRegistry(registry, transformer_list, table_name, column) ==
    LET key == TableAndColumnName(table_name, column.name)
    IN  IF key \in DOMAIN registry
        THEN {[column |-> c, by |-> registry[key]] :
                  c \in transform(transformer_list[registry[key]], column)}
        ELSE {[column |-> column, by |-> 0]}

\* ---------------------------------------------------------------- one row
\* the loop over column_names: every outcome it can have, as the two
\* column lists built, the transform calls made and whether it panicked
NoColumns == [panic |-> "", original_columns |-> <<>>, columns |-> <<>>, calls |-> <<>>]

\* PushColumns with a slip: the transformed list only receives the columns
\* a transformer returned
PushColumnsTransformedOnly(acc, table_name, original_column, applied) ==
    [acc EXCEPT !.original_columns = Append(@, original_column),
                !.columns = IF applied.by = 0 THEN @ ELSE Append(@, applied.column),
                !.calls = IF applied.by = 0 THEN @
                          ELSE Append(@, [by |-> applied.by,
                                          table_name |-> table_name,
                                          given |-> original_column,
                                          returned |-> applied.column])]

\* PushColumns with a slip: without the clone of line 150 the original
\* list receives the column the transformer returned
PushColumnsWithoutClone(acc, table_name, original_column, applied) ==
    [acc EXCEPT !.original_columns = Append(@, applied.column),
                !.columns = Append(@, applied.column),
                !.calls = IF applied.by = 0 THEN @
                          ELSE Append(@, [by |-> applied.by,
                                          table_name |-> table_name,
                                          given |-> original_column,
                                          returned |-> applied.column])]

PushColumns(acc, table_name, original_column, applied) ==
    [acc EXCEPT !.original_columns = Append(@, original_column),
                !.columns = Append(@, applied.column),
                !.calls = IF applied.by = 0 THEN @
                          ELSE Append(@, [by |-> applied.by,
                                          table_name |-> table_name,
                                          given |-> original_column,
                                          returned |-> applied.column])]

\* BuildColumns with a slip: a column without a value, or with a number
\* that does not parse, is left out of the row instead of stopping the run
RECURSIVE BuildColumnsSkipping(_, _, _, _, _, _, _)
BuildColumnsSkipping(registry, transformer_list, table_name, column_names, column_values, i, acc) ==
    IF i > Len(column_names) \/ i > Len(column_values) THEN {acc}
    ELSE LET typed == TypeColumn(column_names[i], column_values[i])
         IN  IF typed = <<>>
             THEN BuildColumnsSkipping(registry, transformer_list, table_name,
                                       column_names, column_values, i + 1, acc)
             ELSE UNION {BuildColumnsSkipping(registry, transformer_list, table_name,
                                      column_names, column_values, i + 1,
                                      PushColumns(acc, table_name, typed[1], applied)) :
                             applied \in ApplyRegistry(registry, transformer_list,
                                                       table_name, typed[1])}

RECURSIVE BuildColumns(_, _, _, _, _, _, _)
BuildColumns(registry, transformer_list, table_name, column_names, column_values, i, acc) ==
    IF i > Len(column_names) THEN {acc}
    ELSE IF i > Len(column_values)
    THEN {[acc EXCEPT !.panic = "column_values.get(i).unwrap()"]}
    ELSE LET typed == TypeColumn(column_names[i], column_values[i])
         IN  IF typed = <<>>
             THEN {[acc EXCEPT !.panic = "parse().unwrap()"]}
             ELSE UNION {BuildColumns(registry, transformer_list, table_name,
                                      column_names, column_values, i + 1,
                                      PushColumns(acc, table_name, typed[1], applied)) :
                             applied \in ApplyRegistry(registry, transformer_list,
                                                       table_name, typed[1])}

\* IsInsertInto with a slip: either keyword is enough
IsInsertOrInto(tokens) ==
    \/ match_keyword_at_position("INSERT", tokens, 0)
    \/ match_keyword_at_position("INTO", tokens, 2)

\* the condition under which the closure treats a statement as an insertion
IsInsertInto(tokens) ==
    /\ match_keyword_at_position("INSERT", tokens, 0)
    /\ match_keyword_at_position("INTO", tokens, 2)

Row(table_name, columns) == [table_name |-> table_name, columns |-> columns]

\* CallRow with a slip: the newest pair is put before the earlier ones
CallRowFirst(called, statement, table_name, built) ==
    <<[statement |-> statement,
       original |-> Row(table_name, built.original_columns),
       transformed |-> Row(table_name, built.columns)]>> \o called

\* row(Row {..}, Row {..}): the callback is called with the pair; `statement`
\* is the position in the dump of the statement the pair comes from
CallRow(called, statement, table_name, built) ==
    Append(called, [statement |-> statement,
                    original |-> Row(table_name, built.original_columns),
                    transformed |-> Row(table_name, built.columns)])

\* ------------------------------------------------------------------ inputs
TableA == <<"a">>
TableAB == <<"a", ".", "b">>
ColumnC == <<"c">>
ColumnBC == <<"b", ".", "c">>

StringX == Lit("SingleQuotedString", <<"x">>)
Number7 == Lit("Number", <<"7">>)
\* 2^127, the least literal that parse::<i128>() rejects
NumberTooBig == Lit("Number", [I128Max EXCEPT ![Len(I128Max)] = "8"])
Null == KeywordWord("NULL")

RECURSIVE CommaList(_)
CommaList(tokens) ==
    IF Len(tokens) <= 1 THEN tokens
    ELSE <<tokens[1], Comma, Whitespace>> \o CommaList(Tail(tokens))

RECURSIVE Idents(_)
Idents(names) ==
    IF names = <<>> THEN <<>> ELSE <<Ident(names[1])>> \o Idents(Tail(names))

\* the tokens of the statement pg_dump --column-inserts writes for one row:
\* INSERT INTO public.<table> (<names>) VALUES (<values>);
\* and, for a table without columns, INSERT INTO public.<table> DEFAULT VALUES;
InsertStatement(table, names, values) ==
    <<KeywordWord("INSERT"), Whitespace, KeywordWord("INTO"), Whitespace,
      Ident(<<"public">>), Period, Ident(table), Whitespace>>
    \o (IF names = <<>> /\ values = <<>>
        THEN <<KeywordWord("DEFAULT"), Whitespace, KeywordWord("VALUES")>>
        ELSE <<LParen>> \o CommaList(Idents(names)) \o <<RParen, Whitespace,
               KeywordWord("VALUES"), Whitespace, LParen>> \o CommaList(values)
             \o <<RParen>>)
    \o <<SemiColon>>

\* CREATE TABLE public.a (c text);
CreateTable ==
    <<KeywordWord("CREATE"), Whitespace, KeywordWord("TABLE"), Whitespace,
      Ident(<<"public">>), Period, Ident(TableA), Whitespace, LParen,
      Ident(ColumnC), Whitespace, KeywordWord("TEXT"), RParen, SemiColon>>

\* INSERT OVERWRITE public.a (c) VALUES ('x');  INSERT without INTO
InsertOverwrite ==
    [InsertStatement(TableA, <<ColumnC>>, <<StringX>>)
        EXCEPT ![3] = KeywordWord("OVERWRITE")]

\* INSERT INTO a (c) VALUES ('x');  no schema: position 6 is the parenthesis
InsertUnqualified ==
    <<KeywordWord("INSERT"), Whitespace, KeywordWord("INTO"), Whitespace,
      Ident(TableA), Whitespace, LParen, Ident(ColumnC), RParen, Whitespace,
      KeywordWord("VALUES"), Whitespace, LParen, StringX, RParen, SemiColon>>

\* the column names and value tokens of the insertions of table a
Shapes ==
    { <<<<>>, <<>>>>,
      <<<<ColumnC>>, <<Number7>>>>,
      <<<<ColumnC, ColumnBC>>, <<Null, StringX>>>>,
      <<<<ColumnC>>, <<NumberTooBig>>>>,
      <<<<ColumnC, ColumnBC>>, <<StringX>>>>,
      <<<<ColumnC>>, <<StringX, Number7>>>> }

\* the statements the producer can write
Statements ==
    {InsertStatement(TableA, s[1], s[2]) : s \in Shapes}
    \cup {InsertStatement(TableAB, <<ColumnC>>, <<StringX>>)}
    \cup {CreateTable, InsertOverwrite, InsertUnqualified}

\* the transformers the caller can hand over
Transformers == {NoTransformer, RandomTransformer(TableA, ColumnBC)}

SeqsUpTo(S, n) == UNION {[1..k -> S] : k \in 0..n}

\* ------------------------------------------------------------------- state
VARIABLES
    transformers,       \* the argument of stream_rows
    pc,                 \* where stream_rows is
    result,             \* "" while running, then "Ok", "Err" or "Panic"
    error,              \* the message of the Err or of the panic
    transformer_by_table_and_column_name,
    consumed,           \* statements list_queries_from_dump_reader has read
    query,              \* the statement the closure is running on
    rows,               \* the calls of the callback, in order
    calls,              \* the calls of Transformer::transform, in order
    child,              \* the producer process
    emitted,            \* the statements the producer has written to stdout
    stdout_closed,      \* the producer has closed its stdout
    stderr_buf,         \* bytes in the stderr pipe, which nobody reads
    exit_status         \* the producer's exit status

vars ==
    <<transformers, pc, result, error, transformer_by_table_and_column_name,
      consumed, query, rows, calls, child, emitted, stdout_closed, stderr_buf,
      exit_status>>

consumerVars ==
    <<transformers, pc, result, error, transformer_by_table_and_column_name,
      consumed, query, rows, calls>>
producerVars == <<child, emitted, stdout_closed, stderr_buf, exit_status>>

Init ==
    /\ transformers \in SeqsUpTo(Transformers, MaxTransformers)
    /\ pc = "Start"
    /\ result = ""
    /\ error = ""
    /\ transformer_by_table_and_column_name = EmptyMap
    /\ consumed = 0
    /\ query = <<>>
    /\ rows = <<>>
    /\ calls = <<>>
    /\ child = "NotSpawned"
    /\ emitted = <<>>
    /\ stdout_closed = FALSE
    /\ stderr_buf = 0
    /\ exit_status = 0

\* return from stream_rows, or unwind out of it
Finish(how, message) ==
    /\ pc' = "Done"
    /\ result' = how
    /\ error' = message

\* ------------------------------------------------------------ stream_rows
\* Command::new("pg_dump") ... .spawn()?
Spawn ==
    /\ pc = "Start"
    /\ \E spawned \in BOOLEAN :
          IF spawned
          THEN /\ child' = "Running"
               /\ pc' = "TakeStdout"
               /\ UNCHANGED <<result, error>>
          ELSE /\ Finish("Err", "spawn")
               /\ UNCHANGED child
    /\ UNCHANGED <<transformers, transformer_by_table_and_column_name, consumed,
                   query, rows, calls, emitted, stdout_closed, stderr_buf,
                   exit_status>>

\* TakeStdout with a slip: the missing handle is noted and not returned
TakeStdoutIgnoringFailure ==
    /\ pc = "TakeStdout"
    /\ \E taken \in BOOLEAN :
          /\ pc' = "BuildRegistry"
          /\ error' = IF taken THEN error ELSE "Could not capture standard output."
          /\ UNCHANGED result
    /\ UNCHANGED <<transformers, transformer_by_table_and_column_name, consumed,
                   query, rows, calls>>
    /\ UNCHANGED producerVars

\* process.stdout.take().ok_or_else(...)?
TakeStdout ==
    /\ pc = "TakeStdout"
    /\ \E taken \in BOOLEAN :
          IF taken
          THEN /\ pc' = "BuildRegistry"
               /\ UNCHANGED <<result, error>>
          ELSE Finish("Err", "Could not capture standard output.")
    /\ UNCHANGED <<transformers, transformer_by_table_and_column_name, consumed,
                   query, rows, calls>>
    /\ UNCHANGED producerVars

\* for transformer in transformers { map.insert(key, transformer) }
RECURSIVE InsertAll(_, _, _)
InsertAll(map, transformer_list, i) ==
    IF i > Len(transformer_list) THEN map
    ELSE InsertAll(HashMapInsert(map, table_and_column_name(transformer_list[i]), i),
                   transformer_list, i + 1)

\* BuildRegistry with a slip: the loop stops after the first transformer
BuildRegistryFirstOnly ==
    /\ pc = "BuildRegistry"
    /\ transformer_by_table_and_column_name' =
           (IF transformers = <<>> THEN EmptyMap
            ELSE HashMapInsert(EmptyMap, table_and_column_name(transformers[1]), 1))
    /\ pc' = "Read"
    /\ UNCHANGED <<transformers, result, error, consumed, query, rows, calls>>
    /\ UNCHANGED producerVars

BuildRegistry ==
    /\ pc = "BuildRegistry"
    /\ transformer_by_table_and_column_name' = InsertAll(EmptyMap, transformers, 1)
    /\ pc' = "Read"
    /\ UNCHANGED <<transformers, result, error, consumed, query, rows, calls>>
    /\ UNCHANGED producerVars

\* list_queries_from_dump_reader: the next statement of the pipe is handed
\* to the closure
ReadStatement ==
    /\ pc = "Read"
    /\ consumed < Len(emitted)
    /\ query' = emitted[consumed + 1]
    /\ consumed' = consumed + 1
    /\ pc' = "Closure"
    /\ UNCHANGED <<transformers, result, error, transformer_by_table_and_column_name,
                   rows, calls>>
    /\ UNCHANGED producerVars

\* ReadEof with a slip: an empty pipe is taken for the end of the stream
ReadEofOnEmptyPipe ==
    /\ pc = "Read"
    /\ consumed = Len(emitted)
    /\ pc' = "Wait"
    /\ UNCHANGED <<transformers, result, error, transformer_by_table_and_column_name,
                   consumed, query, rows, calls>>
    /\ UNCHANGED producerVars

\* list_queries_from_dump_reader returns Ok at the end of the stream
ReadEof ==
    /\ pc = "Read"
    /\ consumed = Len(emitted)
    /\ stdout_closed
    /\ pc' = "Wait"
    /\ UNCHANGED <<transformers, result, error, transformer_by_table_and_column_name,
                   consumed, query, rows, calls>>
    /\ UNCHANGED producerVars

\* a read of the pipe fails: list_queries_from_dump_reader returns Err and
\* stream_rows panics
ReadError ==
    /\ pc = "Read"
    /\ child # "NotSpawned"
    /\ Finish("Panic", "read")
    /\ UNCHANGED <<transformers, transformer_by_table_and_column_name, consumed,
                   query, rows, calls>>
    /\ UNCHANGED producerVars

\* the closure on one statement, up to its call of the callback
Closure ==
    /\ pc = "Closure"
    /\ LET tokens == query
           table_name == get_word_value_at_position(tokens, 6)
       IN  IF IsInsertInto(tokens) /\ table_name # <<>>
           THEN \E built \in BuildColumns(transformer_by_table_and_column_name,
                                          transformers, table_name[1],
                                          get_column_names_from_insert_into_query(tokens),
                                          get_column_values_from_insert_into_query(tokens),
                                          1, NoColumns) :
                   /\ calls' = calls \o built.calls
                   /\ IF built.panic # ""
                      THEN /\ Finish("Panic", built.panic)
                           /\ UNCHANGED rows
                      ELSE /\ rows' = CallRow(rows, consumed, table_name[1], built)
                           /\ pc' = "Callback"
                           /\ UNCHANGED <<result, error>>
           ELSE /\ pc' = "Read"
                /\ UNCHANGED <<result, error, rows, calls>>
    /\ UNCHANGED <<transformers, transformer_by_table_and_column_name, consumed, query>>
    /\ UNCHANGED producerVars

\* the callback returns and the closure with it
CallbackReturn ==
    /\ pc = "Callback"
    /\ pc' = "Read"
    /\ UNCHANGED <<transformers, result, error, transformer_by_table_and_column_name,
                   consumed, query, rows, calls>>
    /\ UNCHANGED producerVars

\* Wait with a slip: the exit status is not looked at
WaitIgnoringStatus ==
    /\ pc = "Wait"
    /\ child = "Exited"
    /\ \E waited \in BOOLEAN :
          IF ~waited THEN Finish("Err", "wait") ELSE Finish("Ok", "")
    /\ UNCHANGED <<transformers, transformer_by_table_and_column_name, consumed,
                   query, rows, calls>>
    /\ UNCHANGED producerVars

\* match process.wait(): returns once the producer has exited
Wait ==
    /\ pc = "Wait"
    /\ child = "Exited"
    /\ \E waited \in BOOLEAN :
          IF ~waited THEN Finish("Err", "wait")
          ELSE IF exit_status # 0 THEN Finish("Err", "command error")
          ELSE Finish("Ok", "")
    /\ UNCHANGED <<transformers, transformer_by_table_and_column_name, consumed,
                   query, rows, calls>>
    /\ UNCHANGED producerVars

\* --------------------------------------------------------------- producer
\* The producer is followed while stream_rows runs: once stream_rows has
\* finished, nothing it does is observed.
ProducerRuns == child = "Running" /\ pc # "Done"

\* write(stdout): blocks while the pipe is full
ProducerWriteStatement ==
    /\ ProducerRuns
    /\ ~stdout_closed
    /\ Len(emitted) < MaxStmts
    /\ Len(emitted) - consumed < StdoutCap
    /\ \E statement \in Statements : emitted' = Append(emitted, statement)
    /\ UNCHANGED <<child, stdout_closed, stderr_buf, exit_status>>
    /\ UNCHANGED consumerVars

\* write(stderr) of one byte: stream_rows never reads the pipe, so the
\* write that finds it full never returns
ProducerWriteStderr ==
    /\ ProducerRuns
    /\ IF stderr_buf < StderrCap
       THEN /\ stderr_buf' = stderr_buf + 1
            /\ UNCHANGED child
       ELSE /\ child' = "BlockedOnStderr"
            /\ UNCHANGED stderr_buf
    /\ UNCHANGED <<emitted, stdout_closed, exit_status>>
    /\ UNCHANGED consumerVars

ProducerCloseStdout ==
    /\ ProducerRuns
    /\ ~stdout_closed
    /\ stdout_closed' = TRUE
    /\ UNCHANGED <<child, emitted, stderr_buf, exit_status>>
    /\ UNCHANGED consumerVars

ProducerExit ==
    /\ ProducerRuns
    /\ stdout_closed
    /\ \E status \in {0, 1} :
          /\ exit_status' = status
          /\ child' = "Exited"
    /\ UNCHANGED <<emitted, stdout_closed, stderr_buf>>
    /\ UNCHANGED consumerVars

Next ==
    \/ Spawn
    \/ TakeStdout
    \/ BuildRegistry
    \/ ReadStatement
    \/ ReadEof
    \/ ReadError
    \/ Closure
    \/ CallbackReturn
    \/ Wait
    \/ ProducerWriteStatement
    \/ ProducerWriteStderr
    \/ ProducerCloseStdout
    \/ ProducerExit

Spec == Init /\ [][Next]_vars

\* The thread that runs stream_rows keeps running, and so does the producer
\* process: each takes a step when it can.  A failing read is a fault, and
\* no fairness is asked of it.
StreamRowsStep ==
    \/ Spawn
    \/ TakeStdout
    \/ BuildRegistry
    \/ ReadStatement
    \/ ReadEof
    \/ Closure
    \/ CallbackReturn
    \/ Wait

ProducerStep ==
    \/ ProducerWriteStatement
    \/ ProducerWriteStderr
    \/ ProducerCloseStdout
    \/ ProducerExit

FairSpec == Spec /\ WF_vars(StreamRowsStep) /\ WF_vars(ProducerStep)

\* ------------------------------------------------- one statement, any value
\* the value tokens of every kind the match of lines 120-147 tells apart
TypingTokens ==
    { Number7,
      Lit("Number", <<"1", "2", "3">>),
      Lit("Number", <<"0", "0", "7">>),
      Lit("Number", <<"1", ".", "5", "0">>),
      Lit("Number", <<"1", ".", "5">>),
      Lit("Number", <<"0", ".", "5">>),
      Lit("Number", I128Max),
      NumberTooBig,
      Lit("Char", <<"c">>),
      StringX,
      Lit("SingleQuotedString", <<>>),
      Lit("SingleQuotedString", <<"1", ".", "5">>),
      Lit("NationalStringLiteral", <<"x">>),
      Lit("HexStringLiteral", <<"f">>),
      Null,
      KeywordWord("TRUE"),
      Ident(<<"d">>),
      Period }

\* the pairs of value tokens of the statements with two columns
TypingPairs ==
    { <<Lit("Number", <<"1", ".", "5", "0">>), Lit("HexStringLiteral", <<"f">>)>>,
      <<Lit("HexStringLiteral", <<"f">>), Lit("Number", <<"1", ".", "5", "0">>)>>,
      <<Null, Lit("Char", <<"c">>)>>,
      <<Lit("Char", <<"c">>), Number7>>,
      <<Lit("NationalStringLiteral", <<"x">>), Period>>,
      <<StringX, NumberTooBig>> }

TypingStatements ==
    {InsertStatement(TableA, <<ColumnC>>, <<t>>) : t \in TypingTokens}
    \cup {InsertStatement(TableA, <<ColumnC, ColumnBC>>, p) : p \in TypingPairs}

\* stream_rows about to read a dump of one insertion, which the producer
\* wrote before it closed its output and exited
TypingInit ==
    /\ transformers \in SeqsUpTo(Transformers, MaxTransformers)
    /\ pc = "Read"
    /\ result = ""
    /\ error = ""
    /\ transformer_by_table_and_column_name = InsertAll(EmptyMap, transformers, 1)
    /\ consumed = 0
    /\ query = <<>>
    /\ rows = <<>>
    /\ calls = <<>>
    /\ child = "Exited"
    /\ emitted \in {<<statement>> : statement \in TypingStatements}
    /\ stdout_closed = TRUE
    /\ stderr_buf = 0
    /\ exit_status = 0

TypingNext ==
    \/ ReadStatement
    \/ Closure
    \/ CallbackReturn
    \/ ReadEof
    \/ Wait

TypingSpec == TypingInit /\ [][TypingNext]_vars

\* ------------------------------------------------------------- properties
RowIndices == 1..Len(rows)

\* the keys of the transformers handed to stream_rows
RegisteredKeys == {table_and_column_name(transformers[j]) : j \in 1..Len(transformers)}

\* C1 (pairing invariant): in every pair of rows handed to the callback the
\* original and the transformed row have the same number of columns, and
\* at every index the two columns have the same name.
PairingInvariant ==
    \A r \in RowIndices :
        LET original == rows[r].original.columns
            transformed == rows[r].transformed.columns
        IN  /\ Len(original) = Len(transformed)
            /\ \A i \in 1..Len(original) :
                   i <= Len(transformed) => original[i].name = transformed[i].name

\* a pair of two columns of which a transformer changed one
PairingWitness ==
    \E r \in RowIndices :
        /\ Len(rows[r].original.columns) = 2
        /\ rows[r].transformed.columns # rows[r].original.columns

\* C2 (passthrough): in every pair handed to the callback, a column whose
\* key "table.column" is the key of no transformer of the list is the same
\* column, variant, name and value, in the transformed row.
Passthrough ==
    \A r \in RowIndices :
        LET original == rows[r].original.columns
            transformed == rows[r].transformed.columns
        IN  \A i \in 1..Len(original) :
                TableAndColumnName(rows[r].original.table_name, original[i].name)
                        \notin RegisteredKeys
                    => /\ i <= Len(transformed)
                       /\ transformed[i] = original[i]

\* a row of a table that has a transformer, with a typed column the
\* transformer is not for, next to the column it changed
PassthroughWitness ==
    \E r \in RowIndices :
        LET original == rows[r].original.columns
            transformed == rows[r].transformed.columns
        IN  /\ Len(original) = 2 /\ Len(transformed) = 2
            /\ TableAndColumnName(rows[r].original.table_name, original[1].name)
                   \notin RegisteredKeys
            /\ transformed[1] = original[1]
            /\ transformed[2] # original[2]

\* the statements the claims call recognized insertion statements: keyword
\* INSERT at position 0, keyword INTO at position 2, a word at position 6
Recognized(tokens) ==
    /\ match_keyword_at_position("INSERT", tokens, 0)
    /\ match_keyword_at_position("INTO", tokens, 2)
    /\ get_word_value_at_position(tokens, 6) # <<>>

\* a well-formed insertion statement: as many values as column names, and
\* every numeric literal parses
WellFormed(tokens) ==
    LET column_names == get_column_names_from_insert_into_query(tokens)
        column_values == get_column_values_from_insert_into_query(tokens)
    IN  /\ Len(column_names) = Len(column_values)
        /\ \A i \in 1..Len(column_names) :
               TypeColumn(column_names[i], column_values[i]) # <<>>

RecognizedIn(statements) == {k \in 1..Len(statements) : Recognized(statements[k])}

\* C3 (registry dispatch): a transformer registered for table T and column c
\* is applied to a column exactly when the row's table is T and the
\* column's name is c, and the transformed column is then what that one call
\* of transform returned; it is never applied to a column of another table
\* nor to another column of T.
RegistryDispatch ==
    /\ \A n \in 1..Len(calls) :
           /\ transformers[calls[n].by].table_name = calls[n].table_name
           /\ transformers[calls[n].by].column_name = calls[n].given.name
    /\ \A r \in RowIndices :
           LET table_name == rows[r].original.table_name
               original == rows[r].original.columns
               transformed == rows[r].transformed.columns
           IN  \A i \in 1..Len(original) :
                   LET for_it == {j \in 1..Len(transformers) :
                                      /\ transformers[j].table_name = table_name
                                      /\ transformers[j].column_name = original[i].name}
                       applied == {n \in 1..Len(calls) :
                                      /\ calls[n].table_name = table_name
                                      /\ calls[n].given = original[i]
                                      /\ calls[n].returned = transformed[i]}
                   IN  IF for_it = {} THEN transformed[i] = original[i]
                       ELSE applied # {}

\* C4 (terminal failure): when the producer has written N recognized,
\* well-formed insertion statements, closed its output and exited with a
\* non-zero status, and stream_rows has finished without a fault of its own
\* pipe (no output handle, a failed read), the callback was called N times
\* and stream_rows returned Err.
TerminalFailure ==
    ( /\ pc = "Done"
      /\ child = "Exited"
      /\ exit_status # 0
      /\ error \notin {"read", "Could not capture standard output."}
      /\ \A k \in RecognizedIn(emitted) : WellFormed(emitted[k]) )
    => /\ result = "Err"
       /\ Len(rows) = Cardinality(RecognizedIn(emitted))

\* two rows delivered, then the failure of the producer reported
TerminalFailureWitness ==
    /\ pc = "Done"
    /\ child = "Exited"
    /\ exit_status # 0
    /\ Cardinality(RecognizedIn(emitted)) = MaxStmts
    /\ \A k \in RecognizedIn(emitted) : WellFormed(emitted[k])
    /\ Len(rows) = MaxStmts
    /\ result = "Err"
    /\ error = "command error"

\* the closure panicked on the statement read last
ClosurePanicked == pc = "Done" /\ result = "Panic" /\ error # "read"

\* the statements the closure has returned from
Handled == IF pc = "Closure" \/ ClosurePanicked THEN consumed - 1 ELSE consumed

\* the positions, in order, of the recognized statements among the first n
RECURSIVE RecognizedUpTo(_, _)
RecognizedUpTo(statements, n) ==
    IF n = 0 THEN <<>>
    ELSE IF Recognized(statements[n])
    THEN Append(RecognizedUpTo(statements, n - 1), n)
    ELSE RecognizedUpTo(statements, n - 1)

RECURSIVE StatementsOf(_)
StatementsOf(called) ==
    IF called = <<>> THEN <<>>
    ELSE <<called[1].statement>> \o StatementsOf(Tail(called))

\* the calls of the callback are, in order, the recognized insertion
\* statements the closure has returned from, each with its table
CallsFollowDump ==
    /\ StatementsOf(rows) = RecognizedUpTo(emitted, Handled)
    /\ \A r \in RowIndices :
           /\ rows[r].statement <= Len(emitted)
           /\ <<rows[r].original.table_name>>
                  = get_word_value_at_position(emitted[rows[r].statement], 6)
           /\ rows[r].transformed.table_name = rows[r].original.table_name

\* C5 (ordering): the calls of the callback correspond one to one, in the
\* same order, to the recognized insertion statements of the producer's
\* output read so far; while a callback runs no statement is read and no
\* other callback is called.
Ordering ==
    /\ []CallsFollowDump
    /\ [][pc = "Callback" => consumed' = consumed /\ rows' = rows]_vars
    /\ [][consumed' # consumed => pc = "Read" /\ consumed' = consumed + 1]_vars

\* two callbacks, for the first and the second statement of the dump
OrderingWitness ==
    /\ Len(rows) = 2
    /\ rows[1].statement = 1
    /\ rows[2].statement = 2
    /\ rows[1].original # rows[2].original
    /\ pc = "Callback"

\* C6 (non-insertion skip): a statement that has not INSERT at position 0
\* and INTO at position 2, or has no word at position 6, causes no call of
\* the callback and does not stop the stream: the closure returns to the
\* reader, and every recognized insertion statement handled after it is
\* delivered.
NonInsertionSkip ==
    /\ [](\A r \in RowIndices : Recognized(emitted[rows[r].statement]))
    /\ [][pc = "Closure" /\ pc' # "Closure" /\ ~Recognized(query)
              => pc' = "Read" /\ rows' = rows /\ result' = "" /\ calls' = calls]_vars
    /\ [](\A k \in 1..Handled :
              /\ Recognized(emitted[k])
              /\ \E j \in 1..(k - 1) : ~Recognized(emitted[j])
              => \E r \in RowIndices : rows[r].statement = k)

\* a skipped first statement, and the second one delivered
NonInsertionSkipWitness ==
    /\ Len(emitted) = 2
    /\ ~Recognized(emitted[1])
    /\ Len(rows) = 1
    /\ rows[1].statement = 2

\* C7 (spawn and stream-capture failure): when pg_dump cannot be spawned, or
\* its standard-output handle cannot be taken, stream_rows returns Err at
\* once: the callback is never called and no statement is read.
SpawnOrCaptureFailure ==
    ( \/ pc # "Start" /\ child = "NotSpawned"
      \/ error \in {"spawn", "Could not capture standard output."} )
    => /\ pc = "Done"
       /\ result = "Err"
       /\ rows = <<>>
       /\ consumed = 0

\* the handle could not be taken from a producer that had written a statement
SpawnOrCaptureFailureWitness ==
    /\ error = "Could not capture standard output."
    /\ result = "Err"
    /\ emitted # <<>>

\* C8 (terminal outcome): every run of stream_rows ends by returning Ok or
\* Err to its caller; no failure unwinds out of it instead.
TerminalOutcome == pc = "Done" => result \in {"Ok", "Err"}

\* C9 (rows are not empty): every row handed to the callback, original and
\* transformed, has a table name and at least one column.
RowsNotEmpty ==
    \A r \in RowIndices :
        /\ rows[r].original.table_name # <<>>
        /\ rows[r].transformed.table_name # <<>>
        /\ Len(rows[r].original.columns) > 0
        /\ Len(rows[r].transformed.columns) > 0

\* C10 (standard error never blocks the pipeline): the producer of the model
\* writes its output and exits whenever its writes are accepted, so
\* stream_rows eventually finishes, whatever the producer writes to its
\* standard error.
StderrNeverBlocks == <>(pc = "Done")

\* stream_rows has returned without having had a stream to read: pg_dump was
\* not spawned, or its standard-output handle could not be taken
ReturnedBeforeStreaming ==
    error \in {"spawn", "Could not capture standard output."}

\* the stream has been read to its end and every recognized insertion
\* statement of it has been delivered
StreamConsumed ==
    /\ stdout_closed
    /\ consumed = Len(emitted)
    /\ StatementsOf(rows) = RecognizedUpTo(emitted, Len(emitted))

\* C11 (a result only after the whole stream): stream_rows returns Ok only
\* after the stream has been read to its end, every recognized insertion
\* statement has been delivered and the producer has been waited on and has
\* exited with status zero; and once it has a stream to read it returns no
\* result, Ok or Err, while statements remain unread (without a spawned
\* producer or without its output handle there is no stream, and the Err
\* is returned at once).
ReturnsAfterWholeStream ==
    /\ result = "Ok" => StreamConsumed /\ child = "Exited" /\ exit_status = 0
    /\ result = "Ok" => error = ""
    /\ result = "Err" /\ ~ReturnedBeforeStreaming
           => StreamConsumed /\ child = "Exited"

\* Ok after two delivered rows and a producer that exited with status zero
ReturnsAfterWholeStreamWitness ==
    /\ result = "Ok"
    /\ Len(rows) = 2
    /\ consumed = 2
    /\ child = "Exited"
    /\ exit_status = 0

\* the phases of the pipeline
Phase ==
    CASE pc = "Start" -> "NotStarted"
      [] pc \in {"TakeStdout", "BuildRegistry"} -> "ProducerSpawned"
      [] pc \in {"Read", "Closure", "Callback"} -> "Streaming"
      [] pc = "Wait" -> "Draining"
      [] pc = "Done" -> "Finished"

PhaseRank(phase) ==
    CASE phase = "NotStarted" -> 0
      [] phase = "ProducerSpawned" -> 1
      [] phase = "Streaming" -> 2
      [] phase = "Draining" -> 3
      [] phase = "Finished" -> 4

\* C12 (phases move forward): the phase never goes back along NotStarted,
\* ProducerSpawned, Streaming, Draining, Finished; the callback is called
\* only while streaming; waiting on the producer begins only from the
\* streaming phase with the output stream exhausted; and once Finished,
\* nothing of stream_rows changes any more.
PhasesMoveForward ==
    /\ [][PhaseRank(Phase') >= PhaseRank(Phase)]_vars
    /\ [][rows' # rows => Phase = "Streaming" /\ Phase' = "Streaming"]_vars
    /\ [][Phase # "Draining" /\ Phase' = "Draining"
              => Phase = "Streaming" /\ stdout_closed /\ consumed = Len(emitted)]_vars
    /\ [][Phase = "Finished" => UNCHANGED consumerVars]_vars
    /\ [](Phase \in {"NotStarted", "ProducerSpawned"} => rows = <<>>)
    /\ [](Phase = "NotStarted" <=> child = "NotSpawned" /\ result = "")

\* a run through all five phases, with a row delivered
PhasesMoveForwardWitness ==
    /\ Phase = "Finished"
    /\ error = "command error"
    /\ Len(rows) >= 1
    /\ consumed = Len(emitted)


\* C13 (length mismatch): a recognized insertion statement whose value list
\* is shorter or longer than its list of column names is handed to the
\* callback by no pair of rows: every pair delivered comes from a statement
\* with as many values as names, and its rows hold one column per value, so
\* that no column lacks a value and no value is dropped.
LengthMismatchFails ==
    \A r \in RowIndices :
        LET tokens == emitted[rows[r].statement]
            column_names == get_column_names_from_insert_into_query(tokens)
            column_values == get_column_values_from_insert_into_query(tokens)
        IN  /\ Len(column_names) = Len(column_values)
            /\ Len(rows[r].original.columns) = Len(column_values)
            /\ Len(rows[r].transformed.columns) = Len(column_values)


\* a recognized insertion statement that breaks what the closure expects of
\* the extractors: a column name without a value at its index, or with a
\* numeric token there that does not parse
Malformed(tokens) ==
    LET column_names == get_column_names_from_insert_into_query(tokens)
        column_values == get_column_values_from_insert_into_query(tokens)
    IN  /\ Recognized(tokens)
        /\ \E i \in 1..Len(column_names) :
               \/ i > Len(column_values)
               \/ /\ i <= Len(column_values)
                  /\ column_values[i].type = "Number"
                  /\ IF Contains(column_values[i].value, ".")
                     THEN ParseF64(column_values[i].value) = <<>>
                     ELSE ParseI128(column_values[i].value) = <<>>

\* C14 (abort on malformed statement): once a malformed insertion statement
\* has been read, it is the last statement read, the run stops in the
\* closure on it, and the callback has been called for no statement at or
\* after it.
AbortOnMalformed ==
    \A k \in 1..consumed :
        Malformed(emitted[k])
            => /\ consumed = k
               /\ pc = "Closure" \/ ClosurePanicked
               /\ \A r \in RowIndices : rows[r].statement < k

\* the run stopped on a malformed first statement, with a well-formed
\* insertion behind it in the dump that no callback was called for
AbortOnMalformedWitness ==
    /\ ClosurePanicked
    /\ consumed = 1
    /\ Len(emitted) = 2
    /\ Malformed(emitted[1])
    /\ Recognized(emitted[2]) /\ WellFormed(emitted[2])
    /\ rows = <<>>


\* the position of the last transformer of the list with the given key
LatestWithKey(key) ==
    CHOOSE j \in 1..Len(transformers) :
        /\ table_and_column_name(transformers[j]) = key
        /\ \A l \in (j + 1)..Len(transformers) :
               table_and_column_name(transformers[l]) # key

\* C15 (duplicate registry keys): of several transformers of the list with
\* the same key "table.column", every call of transform is made on the one
\* latest in the list, every delivered column with that key went through a
\* call on that one, and building the registry raises no error: it always
\* goes on to reading the stream.
LatestDuplicateWins ==
    /\ [](\A n \in 1..Len(calls) :
              calls[n].by = LatestWithKey(table_and_column_name(transformers[calls[n].by])))
    /\ [](\A r \in RowIndices :
              LET original == rows[r].original.columns
              IN  \A i \in 1..Len(original) :
                      LET key == TableAndColumnName(rows[r].original.table_name,
                                                    original[i].name)
                      IN  key \in RegisteredKeys
                              => \E n \in 1..Len(calls) :
                                     /\ calls[n].by = LatestWithKey(key)
                                     /\ calls[n].given = original[i])
    /\ [][pc = "BuildRegistry" /\ pc' # pc
              => pc' = "Read" /\ result' = "" /\ error' = ""]_vars

\* two transformers with one key, and a column the second one changed
LatestDuplicateWinsWitness ==
    /\ Len(transformers) = 2
    /\ table_and_column_name(transformers[1]) = table_and_column_name(transformers[2])
    /\ \E n \in 1..Len(calls) :
           /\ calls[n].by = 2
           /\ calls[n].returned # calls[n].given
    /\ result = "Ok"


\* the registry holds one entry for every key of the list, and each entry
\* refers to a transformer of the list with that key
RegistryBuilt ==
    /\ DOMAIN transformer_by_table_and_column_name = RegisteredKeys
    /\ \A key \in RegisteredKeys :
           LET j == transformer_by_table_and_column_name[key]
           IN  /\ j \in 1..Len(transformers)
               /\ table_and_column_name(transformers[j]) = key

\* C16 (registry built before streaming, then frozen): whenever stream_rows
\* is reading the stream or has read any of it, the registry is completely
\* built from the list handed over; and from the first read on no step,
\* callback, lookup or transform included, changes the registry or the list.
RegistryFrozen ==
    /\ [](Phase \in {"Streaming", "Draining"} \/ consumed > 0 => RegistryBuilt)
    /\ [][(Phase \in {"Streaming", "Draining", "Finished"})
              => UNCHANGED <<transformer_by_table_and_column_name, transformers>>]_vars
    /\ [][transformer_by_table_and_column_name' # transformer_by_table_and_column_name
              => consumed = 0 /\ rows = <<>> /\ calls = <<>>]_vars

\* a registry of two entries, after a lookup that hit and a callback
RegistryFrozenWitness ==
    /\ Len(transformers) = 2
    /\ transformers[1] # transformers[2]
    /\ DOMAIN transformer_by_table_and_column_name = RegisteredKeys
    /\ Len(calls) >= 1
    /\ Len(rows) = 2


\* the variant the claim gives a value token by its kind
ExpectedVariant(value_token) ==
    CASE value_token.type = "Number" /\ Contains(value_token.value, ".")
             -> "FloatNumberValue"
      [] value_token.type = "Number" /\ ~Contains(value_token.value, ".")
             -> "NumberValue"
      [] value_token.type = "Char" -> "CharValue"
      [] value_token.type \in {"SingleQuotedString", "NationalStringLiteral",
                               "HexStringLiteral"} -> "StringValue"
      [] OTHER -> "None"

\* C17 (value typing): in every original row delivered, the column at an
\* index carries the column name declared at that index, and its variant
\* follows from the kind of the value token at that index alone: a Number
\* with '.' gives FloatNumberValue, a Number without gives NumberValue, a
\* Char gives CharValue, a single-quoted, national or hex string gives
\* StringValue with the content of the token, any other kind gives None.
ValueTyping ==
    \A r \in RowIndices :
        LET tokens == emitted[rows[r].statement]
            column_names == get_column_names_from_insert_into_query(tokens)
            column_values == get_column_values_from_insert_into_query(tokens)
            original == rows[r].original.columns
        IN  /\ Len(original) = Len(column_names)
            /\ \A i \in 1..Len(original) :
                   /\ i <= Len(column_values)
                   /\ original[i].name = column_names[i]
                   /\ original[i].variant = ExpectedVariant(column_values[i])
                   /\ original[i].variant \in {"StringValue", "CharValue"}
                          => original[i].value = column_values[i].value
                   /\ original[i].variant = "None" => original[i].value = <<>>

\* a row of a float column, from the token 1.50, and a string column, from
\* a hex string literal
ValueTypingWitness ==
    \E r \in RowIndices :
        LET original == rows[r].original.columns
            column_values == get_column_values_from_insert_into_query(
                                 emitted[rows[r].statement])
        IN  /\ Len(original) = 2
            /\ column_values[1].value = <<"1", ".", "5", "0">>
            /\ original[1].variant = "FloatNumberValue"
            /\ original[1].value = <<"1", ".", "5">>
            /\ column_values[2].type = "HexStringLiteral"
            /\ original[2] = Column("StringValue", ColumnBC, <<"f">>)


\* the original row of a well-formed insertion statement, from the
\* statement alone
OriginalRowOf(tokens) ==
    LET column_names == get_column_names_from_insert_into_query(tokens)
        column_values == get_column_values_from_insert_into_query(tokens)
    IN  Row(get_word_value_at_position(tokens, 6)[1],
            [i \in 1..Len(column_names) |->
                 TypeColumn(column_names[i], column_values[i])[1]])

\* C18 (the original rows do not depend on the transformers): the calls
\* of the callback are the recognized statements of the dump read so far,
\* and the original row of each call is the row typed from its statement
\* alone, whatever the list of transformers is and whatever its transforms
\* returned; so two runs on one dump with different lists make the same
\* calls with the same original rows. The column a transform was given
\* stays, as it was, in the original row.
OriginalsIgnoreTransformers ==
    /\ StatementsOf(rows) = RecognizedUpTo(emitted, Handled)
    /\ \A r \in RowIndices :
           rows[r].original = OriginalRowOf(emitted[rows[r].statement])
    /\ \A r \in RowIndices :
           \A i \in 1..Len(rows[r].transformed.columns) :
               rows[r].transformed.columns[i] # rows[r].original.columns[i]
                   => \E n \in 1..Len(calls) :
                          /\ calls[n].given = rows[r].original.columns[i]
                          /\ calls[n].returned = rows[r].transformed.columns[i]

\* a finished run in which a transformer returned another column than the
\* one it was given, and the original row holds the one it was given
OriginalsIgnoreTransformersWitness ==
    /\ result = "Ok"
    /\ \E r \in RowIndices :
           \E n \in 1..Len(calls) :
               \E i \in 1..Len(rows[r].original.columns) :
                   /\ calls[n].returned # calls[n].given
                   /\ rows[r].original.columns[i] = calls[n].given
                   /\ rows[r].transformed.columns[i] = calls[n].returned
                   /\ rows[r].original = OriginalRowOf(emitted[rows[r].statement])

====
